---- MODULE Spec2Model ----
(***************************************************************************)
(* A model of tinydb's Database<T> (src/src/lib.rs): the in-memory         *)
(* HashSet of items with its add / remove / update / query operations,     *)
(* and the dump / load path through bincode and the filesystem.            *)
(*                                                                         *)
(* Text (String, PathBuf) is a sequence of byte codes, a file is a         *)
(* sequence of bytes, Option<PathBuf> is a sequence of length 0 or 1.      *)
(* T is the tests' DemoStruct { name: String, age: i32 }.                  *)
(***************************************************************************)
EXTENDS Integers, Sequences, FiniteSets, Bags, TLC

VARIABLES db, fs, last, procs

vars == <<db, fs, last, procs>>

\* ------------------------------------------------------------------ bounds

\* Ages of the items the in-memory specification adds are 1..MaxAge.
MaxAge == 2

\* Ages of the items the persistence specification adds are 1..MaxFsAge.
MaxFsAge == 2

\* ------------------------------------------------------------------- text

\* "John", "Xander": the names the tests give their DemoStructs.
John == <<74, 111, 104, 110>>

Xander == <<88, 97, 110, 100, 101, 114>>

Names == {John, Xander}

Ages == 1..MaxAge

\* DemoStruct { name, age }
DemoStruct == [name : Names, age : Ages]

FsItems == [name : {John}, age : 1..MaxFsAge]

\* Placeholders for "no item" and "no database" in the record of the last
\* call.
NoDb == [label |-> <<>>, save_path |-> <<>>, strict_dupes |-> FALSE, items |-> EmptyBag]

NoItem == [name |-> <<>>, age |-> 0]

\* The label the constructed database gets: "t".
TestLabel == <<116>>

\* The suffix of the default save path: ".tinydb".
TinydbExt == <<46, 116, 105, 110, 121, 100, 98>>

\* "x.db"
XDb == <<120, 46, 100, 98>>

\* "d/y.z.db", in a directory that does not exist.
NestedPath == <<100, 47, 121, 46, 122, 46, 100, 98>>

\* "t.tinydb"
TTinydb == TestLabel \o TinydbExt

\* The empty path, PathBuf::from("").
EmptyPath == <<>>

\* fs maps each path that exists to the bytes of the file there.
EmptyFs == [p \in {} |-> <<>>]

\* ------------------------------------------------------------ the HashSet

\* HashSet<T> is modelled by what the table holds: a bag of elements, so
\* that "no two equal elements" is a property of the operations and not of
\* the representation.

contains_set(items, item) == BagIn(item, items)

\* A Vec::push in place of HashSet::insert: the element is stored again.
HashSet_insert_push(items, item) == items (+) SetToBag({item})

\* HashSet::insert: stores the element unless an equal one is stored.
HashSet_insert(items, item) ==
    IF contains_set(items, item) THEN items ELSE items (+) SetToBag({item})

\* HashSet::remove: drops the stored element equal to item, if any.
HashSet_remove(items, item) == items (-) SetToBag({item})

\* HashSet::iter: the stored elements, each once per stored copy, in an
\* order the hasher decides: any enumeration of the bag.
RECURSIVE HashSet_iter(_)
HashSet_iter(items) ==
    IF BagToSet(items) = {} THEN {<<>>}
    ELSE UNION {{<<e>> \o s : s \in HashSet_iter(items (-) SetToBag({e}))} : e \in BagToSet(items)}

\* ------------------------------------------------------------ the Database

\* Database::new
new(label, save_path, strict_dupes) ==
    [label |-> label, save_path |-> save_path, strict_dupes |-> strict_dupes, items |-> EmptyBag]

\* Database::contains
contains(d, item) == contains_set(d.items, item)

\* Database::len (the count fits an i32 here, so the cast changes nothing)
len(d) == BagCardinality(d.items)

\* add_item with the policy test inverted.
add_item_inverted(d, item) ==
    IF ~d.strict_dupes /\ contains(d, item) THEN [res |-> "DupeFound", db |-> d]
    ELSE [res |-> "Ok", db |-> [d EXCEPT !.items = HashSet_insert(@, item)]]

\* Database::add_item
add_item(d, item) ==
    IF d.strict_dupes /\ contains(d, item) THEN [res |-> "DupeFound", db |-> d]
    ELSE [res |-> "Ok", db |-> [d EXCEPT !.items = HashSet_insert(@, item)]]

\* remove_item that reports success whether or not the item was stored.
remove_item_always_ok(d, item) ==
    [res |-> "Ok", db |-> [d EXCEPT !.items = HashSet_remove(@, item)]]

\* Database::remove_item
remove_item(d, item) ==
    IF contains(d, item) THEN [res |-> "Ok", db |-> [d EXCEPT !.items = HashSet_remove(@, item)]]
    ELSE [res |-> "ItemNotFound", db |-> d]

\* update_item that adds new without removing old.
update_item_keep_old(d, item, newitem) ==
    IF contains(d, item) THEN add_item(d, newitem) ELSE [res |-> "ItemNotFound", db |-> d]

\* update_item that puts old back when adding new fails.
update_item_rollback(d, item, newitem) ==
    LET r == remove_item(d, item)
        a == add_item(r.db, newitem)
    IN  IF r.res # "Ok" THEN r ELSE IF a.res # "Ok" THEN [res |-> a.res, db |-> d] ELSE a

\* Database::update_item: remove_item(item)?; add_item(new)?; Ok(())
update_item(d, item, newitem) ==
    LET r == remove_item(d, item) IN
    IF r.res # "Ok" THEN r ELSE add_item(r.db, newitem)

\* The closures the tests pass as selectors: |f| &f.name and |f| &f.age.
Selectors == {"name", "age"}

value(sel, item) == item[sel]

\* The values queried for: every name and every age.
Queries == [sel : {"name"}, query : Names] \cup [sel : {"age"}, query : Ages]

\* query that answers Ok with whatever matched, an empty Vec included.
query_empty_ok(order, sel, q) ==
    [res |-> "Ok", out |-> SelectSeq(order, LAMBDA item : value(sel, item) = q)]

\* Database::query over the iteration order `order`.
query(order, sel, q) ==
    LET items == SelectSeq(order, LAMBDA item : value(sel, item) = q) IN
    IF Len(items) > 0 THEN [res |-> "Ok", out |-> items] ELSE [res |-> "ItemNotFound", out |-> <<>>]

\* query_item with the comparison negated.
query_item_negated(order, sel, q) ==
    LET hits == SelectSeq(order, LAMBDA item : value(sel, item) # q) IN
    IF Len(hits) > 0 THEN [res |-> "Ok", out |-> <<hits[1]>>] ELSE [res |-> "ItemNotFound", out |-> <<>>]

\* Database::query_item over the iteration order `order`: the first match.
query_item(order, sel, q) ==
    LET hits == SelectSeq(order, LAMBDA item : value(sel, item) = q) IN
    IF Len(hits) > 0 THEN [res |-> "Ok", out |-> <<hits[1]>>] ELSE [res |-> "ItemNotFound", out |-> <<>>]

\* ------------------------------------------------------ the record of a call

\* The threads that call dump_db step by step.
Dumpers == {1, 2}

\* A thread that owns the database d and is not inside a call of dump_db.
Idle(d) ==
    [pc |-> "idle", db |-> d, res |-> "", at |-> "", todo |-> <<>>, off |-> 0, orphan |-> FALSE, had |-> FALSE]

\* What the last call was, what it was given, what it returned and the
\* state it started from.
Call(op) ==
    [op |-> op, res |-> "Ok", pre |-> db, prefs |-> fs, item |-> NoItem, newitem |-> NoItem,
     sel |-> "", query |-> <<>>, out |-> <<>>, path |-> <<>>, strict |-> FALSE, dumped |-> <<>>]

\* ------------------------------------------------------------------ actions

AddItem(item) ==
    LET r == add_item(db, item) IN
    /\ db' = r.db
    /\ last' = [Call("add_item") EXCEPT !.item = item, !.res = r.res]
    /\ UNCHANGED <<fs, procs>>

RemoveItem(item) ==
    LET r == remove_item(db, item) IN
    /\ db' = r.db
    /\ last' = [Call("remove_item") EXCEPT !.item = item, !.res = r.res]
    /\ UNCHANGED <<fs, procs>>

UpdateItem(item, newitem) ==
    LET r == update_item(db, item, newitem) IN
    /\ db' = r.db
    /\ last' = [Call("update_item") EXCEPT !.item = item, !.newitem = newitem, !.res = r.res]
    /\ UNCHANGED <<fs, procs>>

Query(q) ==
    \E order \in HashSet_iter(db.items) :
        LET r == query(order, q.sel, q.query) IN
        /\ last' = [Call("query") EXCEPT !.sel = q.sel, !.query = q.query, !.res = r.res, !.out = r.out]
        /\ UNCHANGED <<db, fs, procs>>

QueryItem(q) ==
    \E order \in HashSet_iter(db.items) :
        LET r == query_item(order, q.sel, q.query) IN
        /\ last' = [Call("query_item") EXCEPT !.sel = q.sel, !.query = q.query, !.res = r.res, !.out = r.out]
        /\ UNCHANGED <<db, fs, procs>>

\* The state after Database::new(label, save_path, strict_dupes), with no
\* file on disk.
Init ==
    /\ \E strict_dupes \in BOOLEAN : db = new(TestLabel, <<>>, strict_dupes)
    /\ fs = EmptyFs
    /\ last = [op |-> "new", res |-> "Ok", pre |-> NoDb, prefs |-> EmptyFs, item |-> NoItem, newitem |-> NoItem,
               sel |-> "", query |-> <<>>, out |-> <<>>, path |-> <<>>, strict |-> FALSE, dumped |-> <<>>]
    /\ procs = [t \in Dumpers |-> Idle(NoDb)]

Next ==
    \/ \E item \in DemoStruct : AddItem(item)
    \/ \E item \in DemoStruct : RemoveItem(item)
    \/ \E item \in DemoStruct, newitem \in DemoStruct : UpdateItem(item, newitem)
    \/ \E q \in Queries : Query(q)
    \/ \E q \in Queries : QueryItem(q)

\* The in-memory operations on a constructed database.
Spec == Init /\ [][Next]_vars

\* ------------------------------------------------------------ the encoding

\* bincode's fixed-width little-endian integer of w bytes.
RECURSIVE Le(_, _)
Le(n, w) == IF w = 0 THEN <<>> ELSE <<n % 256>> \o Le(n \div 256, w - 1)

\* A length prefix: u64.
EncU64(n) == Le(n, 8)

\* String and PathBuf: the length, then the bytes.
EncString(s) == EncU64(Len(s)) \o s

\* Option<PathBuf>: a presence byte, then the value if present.
EncOptionPath(o) == IF o = <<>> THEN <<0>> ELSE <<1>> \o EncString(o[1])

\* bool: one byte.
EncBool(b) == IF b THEN <<1>> ELSE <<0>>

\* DemoStruct: name, then age as an i32 (the ages here are not negative).
EncDemoStruct(item) == EncString(item.name) \o Le(item.age, 4)

\* The items in iteration order, one after the other.
RECURSIVE EncEach(_)
EncEach(order) == IF order = <<>> THEN <<>> ELSE EncDemoStruct(Head(order)) \o EncEach(Tail(order))

\* A serializer that leaves strict_dupes out of the stream.
serialize_skip_strict(d, order) ==
    EncString(d.label) \o EncOptionPath(d.save_path) \o EncU64(Len(order)) \o EncEach(order)

\* bincode::serialize_into of the derived Serialize of Database<T>: label,
\* save_path, strict_dupes, then the items counted and in iteration order.
serialize(d, order) ==
    EncString(d.label) \o EncOptionPath(d.save_path) \o EncBool(d.strict_dupes)
        \o EncU64(Len(order)) \o EncEach(order)

\* A decoding step: whether it succeeded, the value and the bytes left.
DecFail == [ok |-> FALSE, val |-> <<>>, rest |-> <<>>]

DecOk(val, rest) == [ok |-> TRUE, val |-> val, rest |-> rest]

Drop(b, n) == SubSeq(b, n + 1, Len(b))

\* u64: eight bytes. A value with any of the six high bytes set is longer
\* than every file here and is read as 65536.
DecU64(b) ==
    IF Len(b) < 8 THEN DecFail
    ELSE DecOk(IF \E i \in 3..8 : b[i] # 0 THEN 256 * 256 ELSE b[1] + 256 * b[2], Drop(b, 8))

\* String: the length, then that many bytes (all of them ASCII here).
DecString(b) ==
    LET n == DecU64(b) IN
    IF ~n.ok \/ Len(n.rest) < n.val THEN DecFail
    ELSE DecOk(SubSeq(n.rest, 1, n.val), Drop(n.rest, n.val))

\* Option<PathBuf>: the presence byte must be 0 or 1.
DecOptionPath(b) ==
    IF Len(b) < 1 \/ b[1] \notin {0, 1} THEN DecFail
    ELSE IF b[1] = 0 THEN DecOk(<<>>, Drop(b, 1))
    ELSE LET s == DecString(Drop(b, 1)) IN IF s.ok THEN DecOk(<<s.val>>, s.rest) ELSE DecFail

\* bool: the byte must be 0 or 1.
DecBool(b) == IF Len(b) < 1 \/ b[1] \notin {0, 1} THEN DecFail ELSE DecOk(b[1] = 1, Drop(b, 1))

\* i32: four bytes, two's complement.
DecI32(b) ==
    IF Len(b) < 4 THEN DecFail
    ELSE DecOk(b[1] + 256 * b[2] + 65536 * b[3]
                   + 16777216 * (IF b[4] >= 128 THEN b[4] - 256 ELSE b[4]), Drop(b, 4))

DecDemoStruct(b) ==
    LET name == DecString(b) age == DecI32(name.rest) IN
    IF ~name.ok \/ ~age.ok THEN DecFail
    ELSE DecOk([name |-> name.val, age |-> age.val], age.rest)

\* n items, one after the other.
RECURSIVE DecEach(_, _)
DecEach(b, n) ==
    IF n = 0 THEN DecOk(<<>>, b)
    ELSE LET item == DecDemoStruct(b) IN
         IF ~item.ok THEN DecFail
         ELSE LET more == DecEach(item.rest, n - 1) IN
              IF ~more.ok THEN DecFail ELSE DecOk(<<item.val>> \o more.val, more.rest)

\* HashSet's Deserialize: every decoded element is inserted in turn.
RECURSIVE HashSet_from_seq(_)
HashSet_from_seq(s) ==
    IF s = <<>> THEN EmptyBag
    ELSE HashSet_insert(HashSet_from_seq(SubSeq(s, 1, Len(s) - 1)), s[Len(s)])

\* bincode::deserialize into Database<T>; bytes after the value are
\* accepted.
deserialize(b) ==
    LET label == DecString(b)
        save_path == DecOptionPath(label.rest)
        strict_dupes == DecBool(save_path.rest)
        count == DecU64(strict_dupes.rest)
        items == DecEach(count.rest, count.val)
    IN  IF ~label.ok \/ ~save_path.ok \/ ~strict_dupes.ok \/ ~count.ok \/ ~items.ok THEN DecFail
        ELSE DecOk([label |-> label.val, save_path |-> save_path.val, strict_dupes |-> strict_dupes.val,
                    items |-> HashSet_from_seq(items.val)], items.rest)

\* ---------------------------------------------------------- the filesystem

\* Path::exists
exists(f, path) == path \in DOMAIN f

\* File::create followed by the writes: the file holds exactly `bytes`.
WriteFile(f, path, bytes) == [p \in DOMAIN f \cup {path} |-> IF p = path THEN bytes ELSE f[p]]

\* A remove_file that reports success and leaves the file where it is.
remove_file_keep(f, path) == f

\* std::fs::remove_file
remove_file(f, path) == [p \in DOMAIN f \ {path} |-> f[p]]

\* The position of the last `c` in `s`, 0 when there is none.
LastIndexOf(s, c) ==
    IF \E i \in DOMAIN s : s[i] = c
    THEN CHOOSE i \in DOMAIN s : s[i] = c /\ \A j \in DOMAIN s : s[j] = c => j <= i
    ELSE 0

\* Path::file_name for a path with no trailing separator: what follows the
\* last "/", unless that is empty, "." or "..".
file_name(path) ==
    LET name == Drop(path, LastIndexOf(path, 47)) IN
    IF name \in {<<>>, <<46>>, <<46, 46>>} THEN <<>> ELSE <<name>>

\* Path::file_stem: the file name up to its last ".", or all of it when it
\* has none or only a leading one.
file_stem(path) ==
    LET name == file_name(path) IN
    IF name = <<>> THEN <<>>
    ELSE LET dot == LastIndexOf(name[1], 46) IN
         IF dot <= 1 THEN name ELSE <<SubSeq(name[1], 1, dot - 1)>>

\* Database::smart_path_get
smart_path_get(d) == IF d.save_path = <<>> THEN d.label \o TinydbExt ELSE d.save_path[1]

\* The filesystem call of a load that fails, if any.
LoadIo == {"ok", "open", "read_to_end"}

\* The filesystem call of a dump that fails, if any ("write": the first).
DumpIo == {"ok", "remove_file", "create", "write"}

\* get_stream_from_path
get_stream_from_path(f, path, io) ==
    IF ~exists(f, path) THEN [res |-> "DatabaseNotFound", val |-> <<>>]
    ELSE IF io \in {"open", "read_to_end"} THEN [res |-> "IoError", val |-> <<>>]
    ELSE [res |-> "Ok", val |-> <<f[path]>>]

\* Database::from: the decoder's error is unwrapped.
from(f, path, io) ==
    LET stream == get_stream_from_path(f, path, io) IN
    IF stream.res # "Ok" THEN stream
    ELSE LET decoded == deserialize(stream.val[1]) IN
         IF decoded.ok THEN [res |-> "Ok", val |-> <<decoded.val>>] ELSE [res |-> "Panic", val |-> <<>>]

\* auto_from that applies its strict_dupes argument to a loaded database.
auto_from_override(f, path, strict_dupes, io) ==
    LET r == from(f, path, io) stem == file_stem(path) IN
    IF exists(f, path)
    THEN (IF r.res = "Ok" THEN [res |-> "Ok", val |-> <<[r.val[1] EXCEPT !.strict_dupes = strict_dupes]>>] ELSE r)
    ELSE IF stem = <<>> THEN [res |-> "BadDbName", val |-> <<>>]
    ELSE [res |-> "Ok", val |-> <<new(stem[1], <<path>>, strict_dupes)>>]

\* Database::auto_from (every stem here is valid UTF-8, so to_str is Some).
auto_from(f, path, strict_dupes, io) ==
    IF exists(f, path) THEN from(f, path, io)
    ELSE LET stem == file_stem(path) IN
         IF stem = <<>> THEN [res |-> "BadDbName", val |-> <<>>]
         ELSE [res |-> "Ok", val |-> <<new(stem[1], <<path>>, strict_dupes)>>]

\* No directory but the working directory exists: a file can be created at
\* a path with no separator in it.
ParentExists(path) == LastIndexOf(path, 47) = 0

\* Database::open_db_path: the file is removed if it exists, then created.
open_db_path(d, f, io) ==
    LET path == smart_path_get(d) IN
    IF exists(f, path) /\ io = "remove_file" THEN [res |-> "IoError", fs |-> f]
    ELSE IF io = "create" \/ ~ParentExists(path) THEN [res |-> "IoError", fs |-> remove_file(f, path)]
    ELSE [res |-> "Ok", fs |-> WriteFile(f, path, <<>>)]

\* A dump that opens the file for appending instead of replacing it.
dump_db_append(d, f, io, order) ==
    LET path == smart_path_get(d) IN
    IF io # "ok" \/ ~ParentExists(path) THEN [res |-> "IoError", fs |-> f]
    ELSE [res |-> "Ok", fs |-> WriteFile(f, path, (IF exists(f, path) THEN f[path] ELSE <<>>) \o serialize(d, order))]

\* Database::dump_db with the items written in the iteration order `order`:
\* the encoder's error is unwrapped.
dump_db(d, f, io, order) ==
    LET dump_file == open_db_path(d, f, io) IN
    IF dump_file.res # "Ok" THEN dump_file
    ELSE IF io = "write" THEN [res |-> "Panic", fs |-> dump_file.fs]
    ELSE [res |-> "Ok", fs |-> WriteFile(dump_file.fs, smart_path_get(d), serialize(d, order))]

\* The paths from is given: "t.tinydb", "x.db" and "".
FromPaths == {TTinydb, XDb, EmptyPath}

\* The paths auto_from is given: "t.tinydb", "d/y.z.db" and "".
AutoFromPaths == {TTinydb, NestedPath, EmptyPath}

\* What another program leaves at a path: the text "hi".
ForeignFiles == {<<104, 105>>}

\* ------------------------------------------------------ persistence actions

\* from and auto_from are constructors: they have no receiver, so the record
\* of the call holds no database it started from. A call that returns Ok
\* gives the program its database; after any other outcome (an unwinding
\* panic included) the program goes on with the one it had.

DumpDb(io) ==
    \E order \in HashSet_iter(db.items) :
        LET r == dump_db(db, fs, io, order) IN
        /\ fs' = r.fs
        /\ last' = [Call("dump_db") EXCEPT !.res = r.res, !.path = smart_path_get(db)]
        /\ UNCHANGED <<db, procs>>

From(path, io) ==
    LET r == from(fs, path, io) IN
    /\ db' = IF r.res = "Ok" THEN r.val[1] ELSE db
    /\ last' = [Call("from") EXCEPT !.res = r.res, !.path = path, !.pre = NoDb,
                                    !.dumped = IF last.op = "dump_db" /\ last.res = "Ok" /\ last.path = path THEN <<db>> ELSE <<>>]
    /\ UNCHANGED <<fs, procs>>

AutoFrom(path, strict_dupes, io) ==
    LET r == auto_from(fs, path, strict_dupes, io) IN
    /\ db' = IF r.res = "Ok" THEN r.val[1] ELSE db
    /\ last' = [Call("auto_from") EXCEPT !.res = r.res, !.path = path, !.pre = NoDb, !.strict = strict_dupes]
    /\ UNCHANGED <<fs, procs>>

\* Another program writes a file.
ExternalWrite(path, bytes) ==
    /\ fs' = WriteFile(fs, path, bytes)
    /\ last' = [Call("external") EXCEPT !.path = path]
    /\ UNCHANGED <<db, procs>>

NextFs ==
    \/ \E bytes \in ForeignFiles : ExternalWrite(XDb, bytes)
    \/ \E item \in FsItems : AddItem(item)
    \/ \E item \in FsItems : RemoveItem(item)
    \/ \E io \in DumpIo : DumpDb(io)
    \/ \E path \in FromPaths, io \in LoadIo : From(path, io)
    \/ \E path \in AutoFromPaths, strict_dupes \in BOOLEAN, io \in LoadIo : AutoFrom(path, strict_dupes, io)

\* A database that is filled, dumped and loaded, beside other programs that
\* write files.
SpecFs == Init /\ [][NextFs]_vars

\* ------------------------------------------------- dump_db, call by call

\* dump_db is not one filesystem call but a run of them: Path::exists,
\* remove_file, File::create, and one write per value that bincode encodes
\* into the File. procs[t] is a thread with a database of its own inside
\* (or outside) such a run: pc is the call it makes next, todo the writes
\* still to make, off the offset of its File, orphan whether the file its
\* File refers to has lost its name (another remove_file unlinked it), had
\* whether a complete dump was at the path when the run began, res and at
\* how and where the run ended.

\* The writes serialize_into makes for a String: the u64 length, the bytes.
ChunkString(s) == <<EncU64(Len(s)), s>>

ChunkOptionPath(o) == IF o = <<>> THEN <<<<0>>>> ELSE <<<<1>>>> \o ChunkString(o[1])

ChunkDemoStruct(item) == ChunkString(item.name) \o <<Le(item.age, 4)>>

RECURSIVE ChunkEach(_)
ChunkEach(order) == IF order = <<>> THEN <<>> ELSE ChunkDemoStruct(Head(order)) \o ChunkEach(Tail(order))

\* The writes serialize_into(&mut dump_file, self) makes, in order.
Chunks(d, order) ==
    ChunkString(d.label) \o ChunkOptionPath(d.save_path) \o <<EncBool(d.strict_dupes)>>
        \o <<EncU64(Len(order))>> \o ChunkEach(order)

RECURSIVE Flatten(_)
Flatten(chunks) == IF chunks = <<>> THEN <<>> ELSE Head(chunks) \o Flatten(Tail(chunks))

\* A write of bytes at offset off of a file: a file shorter than off is
\* filled up with zeros, what lies behind the written bytes stays.
WriteAt(content, off, bytes) ==
    LET padded == IF Len(content) < off THEN content \o [i \in 1..(off - Len(content)) |-> 0] ELSE content IN
    SubSeq(padded, 1, off) \o bytes \o Drop(padded, off + Len(bytes))

\* The run of thread t ends with result res at the call it was about to make.
Ended(t, res) == [procs EXCEPT ![t].pc = "done", ![t].res = res, ![t].at = procs[t].pc, ![t].todo = <<>>, ![t].off = 0]

\* Thread t calls add_item / remove_item on its database, between dumps.
ThreadAddItem(t, item) ==
    /\ procs[t].pc = "idle"
    /\ procs' = [procs EXCEPT ![t].db = add_item(@, item).db]
    /\ UNCHANGED <<db, fs, last>>

ThreadRemoveItem(t, item) ==
    /\ procs[t].pc = "idle"
    /\ procs' = [procs EXCEPT ![t].db = remove_item(@, item).db]
    /\ UNCHANGED <<db, fs, last>>

\* Thread t enters dump_db.
CallDumpDb(t) ==
    /\ procs[t].pc = "idle"
    /\ procs' = [procs EXCEPT ![t].pc = "exists",
                              ![t].had = LET path == smart_path_get(procs[t].db) IN
                                         exists(fs, path) /\ deserialize(fs[path]).ok /\ deserialize(fs[path]).rest = <<>>]
    /\ UNCHANGED <<db, fs, last>>

\* open_db_path: definate_path.exists()
StepExists(t) ==
    /\ procs[t].pc = "exists"
    /\ procs' = [procs EXCEPT ![t].pc = IF exists(fs, smart_path_get(procs[t].db)) THEN "remove_file" ELSE "create"]
    /\ UNCHANGED <<db, fs, last>>

\* open_db_path: std::fs::remove_file(&definate_path)?  It fails when the
\* file is no longer there, or for a reason of the filesystem's (fail).
StepRemoveFile(t, fail) ==
    LET path == smart_path_get(procs[t].db) IN
    /\ procs[t].pc = "remove_file"
    /\ IF fail \/ ~exists(fs, path)
       THEN /\ procs' = Ended(t, "IoError")
            /\ UNCHANGED fs
       ELSE /\ fs' = remove_file(fs, path)
            /\ procs' = [u \in Dumpers |->
                            IF u = t THEN [procs[u] EXCEPT !.pc = "create"]
                            ELSE IF procs[u].pc = "write" /\ smart_path_get(procs[u].db) = path THEN [procs[u] EXCEPT !.orphan = TRUE]
                            ELSE procs[u]]
    /\ UNCHANGED <<db, last>>

\* open_db_path: File::create(&definate_path)?  It makes the file, or
\* empties the one that is there, and gives a File at offset 0.
StepCreate(t, fail) ==
    LET path == smart_path_get(procs[t].db) IN
    /\ procs[t].pc = "create"
    /\ IF fail \/ ~ParentExists(path)
       THEN /\ procs' = Ended(t, "IoError")
            /\ UNCHANGED fs
       ELSE \E order \in HashSet_iter(procs[t].db.items) :
                /\ fs' = WriteFile(fs, path, <<>>)
                /\ procs' = [procs EXCEPT ![t].pc = "write", ![t].todo = Chunks(procs[t].db, order), ![t].off = 0, ![t].orphan = FALSE]
    /\ UNCHANGED <<db, last>>

\* dump_db: one write of serialize_into; a failed write is unwrapped. After
\* the last write dump_db returns Ok(()) and the File is closed.
StepWrite(t, fail) ==
    LET path == smart_path_get(procs[t].db)
        bytes == Head(procs[t].todo)
    IN
    /\ procs[t].pc = "write"
    /\ IF fail
       THEN /\ procs' = Ended(t, "Panic")
            /\ UNCHANGED fs
       ELSE /\ fs' = IF procs[t].orphan THEN fs ELSE WriteFile(fs, path, WriteAt(fs[path], procs[t].off, bytes))
            /\ procs' = IF Len(procs[t].todo) = 1 THEN Ended(t, "Ok")
                        ELSE [procs EXCEPT ![t].todo = Tail(@), ![t].off = @ + Len(bytes)]
    /\ UNCHANGED <<db, last>>

\* The caller of dump_db has its result and goes on.
Return(t) ==
    /\ procs[t].pc = "done"
    /\ procs' = [procs EXCEPT ![t] = Idle(procs[t].db)]
    /\ UNCHANGED <<db, fs, last>>

\* The process dies inside dump_db.
Crash(t) ==
    /\ procs[t].pc \in {"exists", "remove_file", "create", "write"}
    /\ procs' = [procs EXCEPT ![t].pc = "crashed", ![t].res = "Crash", ![t].at = procs[t].pc, ![t].todo = <<>>, ![t].off = 0]
    /\ UNCHANGED <<db, fs, last>>

\* Two instances as the tests db_dump and db_from construct them: the same
\* label, the same save_path "t.tinydb", strict_dupes true and false.
InitDump ==
    /\ db = NoDb
    /\ fs = EmptyFs
    /\ last = [op |-> "new", res |-> "Ok", pre |-> NoDb, prefs |-> EmptyFs, item |-> NoItem, newitem |-> NoItem,
               sel |-> "", query |-> <<>>, out |-> <<>>, path |-> <<>>, strict |-> FALSE, dumped |-> <<>>]
    /\ procs = [t \in Dumpers |-> Idle(new(TestLabel, <<TTinydb>>, t = 1))]

\* One thread that fills and dumps its database, with calls that can fail
\* and a process that can die.
NextCrash ==
    \/ \E item \in FsItems : ThreadAddItem(1, item)
    \/ \E item \in FsItems : ThreadRemoveItem(1, item)
    \/ CallDumpDb(1)
    \/ StepExists(1)
    \/ \E fail \in BOOLEAN : StepRemoveFile(1, fail)
    \/ \E fail \in BOOLEAN : StepCreate(1, fail)
    \/ \E fail \in BOOLEAN : StepWrite(1, fail)
    \/ Return(1)
    \/ Crash(1)

SpecCrash == InitDump /\ [][NextCrash]_vars

\* Two threads that fill and dump their databases to the same path; no
\* call fails but for what the other thread did.
NextRace ==
    \/ \E t \in Dumpers, item \in FsItems : ThreadAddItem(t, item)
    \/ \E t \in Dumpers, item \in FsItems : ThreadRemoveItem(t, item)
    \/ \E t \in Dumpers : CallDumpDb(t)
    \/ \E t \in Dumpers : StepExists(t)
    \/ \E t \in Dumpers : StepRemoveFile(t, FALSE)
    \/ \E t \in Dumpers : StepCreate(t, FALSE)
    \/ \E t \in Dumpers : StepWrite(t, FALSE)
    \/ \E t \in Dumpers : Return(t)

SpecRace == InitDump /\ [][NextRace]_vars

\* ------------------------------------------------- claims: in-memory operations

\* The stored elements that a query for `q` under selector `sel` matches.
Matching(d, sel, q) == {e \in BagToSet(d.items) : value(sel, e) = q}

\* The elements of a sequence, as a set.
Range(s) == {s[i] : i \in DOMAIN s}

\* C1: in every state reachable from new() by add_item, remove_item and
\* update_item calls, under either duplicate policy, no element is stored
\* twice: len() is the number of distinct items present.
C1_NoTwoEqualItems ==
    /\ \A e \in BagToSet(db.items) : CopiesIn(e, db.items) = 1
    /\ len(db) = Cardinality(BagToSet(db.items))

\* C1's case: an item equal to a stored one was added, without an error,
\* to a database that holds other items too.
C1_Witness ==
    /\ last.op = "add_item"
    /\ last.res = "Ok"
    /\ contains(last.pre, last.item)
    /\ len(db) >= 2

\* C2: add_item(x) with an equal x stored returns DupeFound under the
\* strict policy and success otherwise, and in both cases leaves the items
\* and len() as they were; with x absent it returns success under both
\* policies and len() grows by exactly one.
C2_AddItem ==
    last.op = "add_item" =>
        IF contains(last.pre, last.item)
        THEN /\ last.res = (IF last.pre.strict_dupes THEN "DupeFound" ELSE "Ok")
             /\ db.items = last.pre.items
             /\ len(db) = len(last.pre)
        ELSE /\ last.res = "Ok"
             /\ len(db) = len(last.pre) + 1
             /\ contains(db, last.item)

\* C2's case: the strict policy rejected an add of a stored item.
C2_Witness ==
    /\ last.op = "add_item"
    /\ last.res = "DupeFound"
    /\ contains(last.pre, last.item)
    /\ last.pre.strict_dupes

\* C4 as stated: with old stored and the insert of new not raising
\* DupeFound (the policy is not strict, or no stored element other than old
\* equals new), update_item(old, new) returns success, len() is as before,
\* contains(new) holds and contains(old) does not.
C4_AsStated ==
    (/\ last.op = "update_item"
     /\ contains(last.pre, last.item)
     /\ ~(/\ last.pre.strict_dupes
          /\ last.newitem # last.item
          /\ contains(last.pre, last.newitem)))
    => /\ last.res = "Ok"
       /\ len(db) = len(last.pre)
       /\ contains(db, last.newitem)
       /\ ~contains(db, last.item)

\* C4, amended: with old stored and no stored element other than old equal
\* to new, under either policy, update_item(old, new) returns success,
\* len() is as before and contains(new) holds; contains(old) is false
\* unless new equals old.
C4_Update ==
    (/\ last.op = "update_item"
     /\ contains(last.pre, last.item)
     /\ ~(last.newitem # last.item /\ contains(last.pre, last.newitem)))
    => /\ last.res = "Ok"
       /\ len(db) = len(last.pre)
       /\ contains(db, last.newitem)
       /\ (last.newitem # last.item => ~contains(db, last.item))

\* C4's case: a stored item was replaced by one that was not stored.
C4_Witness ==
    /\ last.op = "update_item"
    /\ last.res = "Ok"
    /\ last.newitem # last.item
    /\ contains(last.pre, last.item)
    /\ ~contains(last.pre, last.newitem)
    /\ len(last.pre) >= 2

\* C5: update_item(old, new) with old absent returns ItemNotFound and
\* leaves the items as they were (new is not inserted); with old stored,
\* the strict policy and a stored element other than old equal to new, it
\* returns DupeFound and leaves the previous items minus old.
C5_UpdateNotAtomic ==
    last.op = "update_item" =>
        /\ ~contains(last.pre, last.item) =>
               /\ last.res = "ItemNotFound"
               /\ db.items = last.pre.items
        /\ (/\ contains(last.pre, last.item)
            /\ last.pre.strict_dupes
            /\ last.newitem # last.item
            /\ contains(last.pre, last.newitem)) =>
               /\ last.res = "DupeFound"
               /\ db.items = last.pre.items (-) SetToBag({last.item})
               /\ ~contains(db, last.item)
               /\ len(db) = len(last.pre) - 1

\* C5's case: an update lost old to a collision of new.
C5_Witness ==
    /\ last.op = "update_item"
    /\ last.res = "DupeFound"
    /\ contains(last.pre, last.item)
    /\ contains(last.pre, last.newitem)

\* C6: remove_item(x) with x absent returns ItemNotFound and leaves the
\* items and len() as they were; with x stored it returns success, x is
\* gone, len() has dropped by one and every other element is still there.
C6_RemoveItem ==
    last.op = "remove_item" =>
        IF contains(last.pre, last.item)
        THEN /\ last.res = "Ok"
             /\ ~contains(db, last.item)
             /\ len(db) = len(last.pre) - 1
             /\ \A e \in BagToSet(last.pre.items) : e # last.item => contains(db, e)
             /\ \A e \in BagToSet(db.items) : contains(last.pre, e)
        ELSE /\ last.res = "ItemNotFound"
             /\ db.items = last.pre.items
             /\ len(db) = len(last.pre)

\* C6's case: one of several stored items was removed.
C6_Witness ==
    /\ last.op = "remove_item"
    /\ last.res = "Ok"
    /\ len(last.pre) >= 2

\* C7: query(selector, value) returns the stored elements whose selected
\* field equals value, each once, none missing and none extra, when there
\* is one, and ItemNotFound exactly when there is none; the database is
\* as it was.
C7_Query ==
    last.op = "query" =>
        LET m == Matching(last.pre, last.sel, last.query) IN
        /\ db = last.pre
        /\ fs = last.prefs
        /\ IF m # {}
           THEN /\ last.res = "Ok"
                /\ Range(last.out) = m
                /\ Len(last.out) = Cardinality(m)
           ELSE last.res = "ItemNotFound"

\* C7's case: a query matched several of the stored items, not all.
C7_Witness ==
    /\ last.op = "query"
    /\ last.res = "Ok"
    /\ Len(last.out) >= 2
    /\ len(db) > Len(last.out)

\* C8: query_item(selector, value) returns a stored element whose selected
\* field equals value when there is one, and ItemNotFound exactly when there
\* is none: it succeeds exactly when query with the same arguments does,
\* and what it returns is one of the elements query returns.
C8_QueryItem ==
    last.op = "query_item" =>
        LET m == Matching(last.pre, last.sel, last.query) IN
        /\ IF m # {}
           THEN /\ last.res = "Ok"
                /\ Len(last.out) = 1
                /\ last.out[1] \in m
           ELSE last.res = "ItemNotFound"
        /\ \A order \in HashSet_iter(last.pre.items) :
               LET r == query(order, last.sel, last.query) IN
               /\ (r.res = "Ok") <=> (last.res = "Ok")
               /\ r.res = "Ok" => last.out[1] \in Range(r.out)

\* C8's case: query_item answered with one of several matching items.
C8_Witness ==
    /\ last.op = "query_item"
    /\ last.res = "Ok"
    /\ Cardinality(Matching(last.pre, last.sel, last.query)) >= 2

\* --------------------------------------------------------- claims: persistence

\* C3: a dump_db() of a database D that succeeds, followed by
\* from(effective save path of D) whose reads do not fail, returns a
\* database with D's label, D's save_path, D's strict_dupes and D's items.
C3_RoundTrip ==
    (last.op = "from" /\ last.dumped # <<>> /\ last.res # "IoError") =>
        LET D == last.dumped[1] IN
        /\ last.path = smart_path_get(D)
        /\ last.res = "Ok"
        /\ db.label = D.label
        /\ db.save_path = D.save_path
        /\ db.strict_dupes = D.strict_dupes
        /\ BagToSet(db.items) = BagToSet(D.items)
        /\ len(db) = len(D)

\* C3's case: a database holding several items was dumped and loaded back.
C3_Witness ==
    /\ last.op = "from"
    /\ last.dumped # <<>>
    /\ last.res = "Ok"
    /\ len(last.dumped[1]) >= 2

\* C9 as stated, for the load calls: from and auto_from end by returning
\* success or an error value; from(path) returns DatabaseNotFound when no
\* file is at path, and an error value, never an abort and never a
\* database, when the file there does not decode.
C9_LoadReturnsAnError ==
    /\ last.op \in {"from", "auto_from"} => last.res # "Panic"
    /\ last.op = "from" =>
           /\ ~exists(last.prefs, last.path) => last.res = "DatabaseNotFound"
           /\ (exists(last.prefs, last.path) /\ ~deserialize(last.prefs[last.path]).ok) => last.res \notin {"Ok", "Panic"}

C11_DumpFrame ==
    (last.op = "dump_db" /\ last.res = "Ok") =>
        LET path == IF db.save_path = <<>> THEN db.label \o TinydbExt ELSE db.save_path[1] IN
        /\ exists(fs, path)
        /\ \E order \in HashSet_iter(db.items) : fs[path] = serialize(db, order)
        /\ deserialize(fs[path]).ok
        /\ deserialize(fs[path]).val.items = db.items
        /\ deserialize(fs[path]).rest = <<>>
        /\ DOMAIN fs \ {path} = DOMAIN last.prefs \ {path}
        /\ \A other \in DOMAIN fs \ {path} : fs[other] = last.prefs[other]
        /\ db = last.pre

\* C11's case: a database with an explicit save_path was dumped over its
\* own longer, earlier dump, after a removal, beside another program's file.
C11_Witness ==
    /\ last.op = "dump_db"
    /\ last.res = "Ok"
    /\ db.save_path # <<>>
    /\ exists(last.prefs, last.path)
    /\ deserialize(last.prefs[last.path]).ok
    /\ Len(last.prefs[last.path]) > Len(fs[last.path])
    /\ exists(fs, XDb)

\* C12: dump_db removes the file, creates it and writes it in separate
\* calls. From the removal until the last write the path does not hold a
\* loadable dump: before create it holds no file, during the writes it
\* holds a proper beginning of the new encoding, which does not decode. A
\* run that ends there without Ok, because create or a write failed or
\* the process died, leaves the path that way; when create failed after
\* the removal, a later from finds no database, whatever was dumped before.
C12_DumpWindow ==
    LET p == procs[1]
        path == smart_path_get(p.db)
        Encodings == {serialize(p.db, order) : order \in HashSet_iter(p.db.items)}
    IN
    /\ p.pc = "create" => ~exists(fs, path)
    /\ p.pc = "write" =>
           /\ exists(fs, path)
           /\ p.todo # <<>>
           /\ Len(fs[path]) = p.off
           /\ fs[path] \o Flatten(p.todo) \in Encodings
           /\ from(fs, path, "ok").res = "Panic"
    /\ (p.pc \in {"done", "crashed"} /\ p.res # "Ok" /\ p.at \in {"create", "write"}) =>
           /\ from(fs, path, "ok").res \in {"DatabaseNotFound", "Panic"}
           /\ exists(fs, path) => fs[path] \notin Encodings
           /\ (p.res = "IoError" /\ p.at = "create") => from(fs, path, "ok").res = "DatabaseNotFound"

\* C12's case: a complete dump was at the path when dump_db began, the
\* removal succeeded, create failed, and dump_db returned the I/O error.
C12_Witness ==
    /\ procs[1].had
    /\ procs[1].pc = "done"
    /\ procs[1].res = "IoError"
    /\ procs[1].at = "create"
    /\ len(procs[1].db) >= 1
    /\ ~exists(fs, smart_path_get(procs[1].db))

\* C13 as stated: when two threads with databases of their own and the
\* same effective path run dump_db with their filesystem calls interleaved,
\* every call returns Ok, and once both have ended the file at the path is
\* the complete encoding of one of the two databases.
C13_BothOkOneFile ==
    LET path == smart_path_get(procs[1].db) IN
    /\ \A t \in Dumpers : procs[t].pc = "done" => procs[t].res = "Ok"
    /\ (\A t \in Dumpers : procs[t].pc = "done") =>
           /\ exists(fs, path)
           /\ \E t \in Dumpers : \E order \in HashSet_iter(procs[t].db.items) : fs[path] = serialize(procs[t].db, order)

====
